---------------------------- MODULE Spec2Model ----------------------------
(***************************************************************************)
(* Logging bootstrap of pocket-options-bot (src/utils/logger.py).          *)
(*                                                                         *)
(* setup_logging reads config.yaml, resolves four options, clears the      *)
(* process-wide handler registry of the logging engine, registers a        *)
(* console handler and a rotating file handler and emits one INFO record.  *)
(* get_logger returns a handle with a name bound into the record's extra   *)
(* dictionary.                                                             *)
(*                                                                         *)
(* Paths are sequences of components (<<"logs", "bot.log">>), file sizes   *)
(* and record lengths are counted in whole megabytes, and the creation     *)
(* time of an archive is its rotation number.                              *)
(***************************************************************************)
EXTENDS Naturals, Sequences, FiniteSets

VARIABLES
    call,      \* the most recent setup_logging call: its input, locals, outcome
    registry,  \* handlers of the process-wide logger, in registration order
    dirs,      \* directories that exist
    files,     \* per log path: the active file and its compressed archives
    nextId,    \* rotations performed so far (orders the archives by age)
    handles,   \* names bound by the handles get_logger has returned
    out        \* the last emitted record and the lines each stream received

vars == <<call, registry, dirs, files, nextId, handles, out>>

---------------------------------------------------------------------------
(* Bounds *)

MaxRotations == 2

---------------------------------------------------------------------------
(* Defaults of setup_logging *)

DefaultLevel == "INFO"
DefaultFile == <<"logs", "bot.log">>
DefaultMaxSizeMB == 10
DefaultBackupCount == 5

(* The module whose code emits the summary record (logger.py itself). *)
LoggerModule == "utils.logger"

---------------------------------------------------------------------------
(* Input domains *)

AltFile == <<"var", "log", "app.log">>
FilePaths == {DefaultFile, AltFile}

(* Severity names of the engine. *)
LevelNames == {"DEBUG", "INFO", "WARNING"}
LevelNo(l) == CASE l = "DEBUG" -> 10
                [] l = "INFO" -> 20
                [] l = "WARNING" -> 30

(* An optional key of a mapping: present with a value, or missing. *)
Missing(v) == [has |-> FALSE, val |-> v]
Given(v) == [has |-> TRUE, val |-> v]

LevelOpts == {Missing(""), Given("DEBUG")}
FileOpts == {Missing(<<>>), Given(AltFile)}
SizeOpts == {Missing(0), Given(5)}
CountOpts == {Missing(0), Given(1)}

Mappings == [level : LevelOpts, file : FileOpts,
             max_size_mb : SizeOpts, backup_count : CountOpts]

EmptyMapping == [level |-> Missing(""), file |-> Missing(<<>>),
                 max_size_mb |-> Missing(0), backup_count |-> Missing(0)]

(* The value of the "logging" key: missing, a mapping (one of them with a *)
(* level that is no severity name), or another kind of node.              *)
Node(k, m) == [kind |-> k, map |-> m]
LoggingValues == {Node("missing", EmptyMapping), Node("scalar", EmptyMapping),
                  Node("map", [EmptyMapping EXCEPT !.level = Given("BOGUS")])}
                 \cup {Node("map", m) : m \in Mappings}

(* The configuration document on disk when setup_logging is called. *)
Doc(k, l) == [kind |-> k, logging |-> l]
Docs == {Doc("absent", Node("missing", EmptyMapping)),
         Doc("malformed", Node("missing", EmptyMapping)),
         Doc("null", Node("missing", EmptyMapping)),
         Doc("list", Node("missing", EmptyMapping))}
        \cup {Doc("map", l) : l \in LoggingValues}

Names == {"moduleA"}
Callers == {"main"}
NoName == ""
Severities == {"DEBUG", "INFO"}
MsgLens == {5, 6}
\* the summary record of setup_logging is a short one
InfoLen == CHOOSE n \in MsgLens : \A m \in MsgLens : n <= m
\* what the file system lets setup_logging do
Envs == {"ok", "nodir", "noopen"}

---------------------------------------------------------------------------
(* Helpers *)

\* dict.get(key, default)
Get(m, key, default) == IF m[key].has THEN m[key].val ELSE default

\* Path(p).parent
Parent(p) == SubSeq(p, 1, Len(p) - 1)

\* the directories mkdir(parents=True) makes sure exist
Ancestors(d) == {SubSeq(d, 1, n) : n \in 1..Len(d)}

ConsoleSink(level) ==
    [kind |-> "stdout", level |-> level, path |-> <<>>,
     rotation |-> 0, retention |-> 0, compression |-> "", colorize |-> TRUE]

\* (variant: the file handler is added without level=, at the engine's DEBUG)
FileSinkDefaultLevel(file, level, max_size_mb, backup_count) ==
    [kind |-> "file", level |-> "DEBUG", path |-> file,
     rotation |-> max_size_mb, retention |-> backup_count,
     compression |-> "zip", colorize |-> FALSE]

FileSink(file, level, max_size_mb, backup_count) ==
    [kind |-> "file", level |-> level, path |-> file,
     rotation |-> max_size_mb, retention |-> backup_count,
     compression |-> "zip", colorize |-> FALSE]

\* the handler the engine starts with
DefaultSink ==
    [kind |-> "stderr", level |-> "DEBUG", path |-> <<>>,
     rotation |-> 0, retention |-> 0, compression |-> "", colorize |-> TRUE]

NoFile == [exists |-> FALSE, size |-> 0, archives |-> <<>>]
NoOut == [record |-> [level |-> "", name |-> "", extra |-> NoName],
          stdout |-> <<>>, stderr |-> <<>>, file |-> <<>>]

\* a call of setup_logging that has just been entered with document doc
Entered(doc) ==
    [doc |-> doc, log_config |-> Node("missing", EmptyMapping),
     log_level |-> "", log_file |-> <<>>, max_size_mb |-> 0, backup_count |-> 0,
     status |-> "running", exc |-> "", line |-> 0, steps |-> <<>>]

NoCall == [Entered(Doc("absent", Node("missing", EmptyMapping)))
             EXCEPT !.status = "none"]

---------------------------------------------------------------------------
Init ==
    /\ call = NoCall
    /\ registry = <<DefaultSink>>
    /\ dirs = {}
    /\ files = [p \in FilePaths |-> NoFile]
    /\ nextId = 0
    /\ handles = {}
    /\ out = NoOut

---------------------------------------------------------------------------
(* The engine's handling of one record *)

\* the text a handler renders: both formats take {name} from the record's
\* own name field (the emitting module); the extra dictionary is not rendered
Render(rec, sink) ==
    [level |-> rec.level, name |-> rec.name, color |-> sink.colorize]

\* level=log_level: a handler takes the records at or above its level
Accepts(sink, rec) == LevelNo(rec.level) >= LevelNo(sink.level)

\* (variant: rotate only once the file itself has grown past n MB)
ShouldRotateAfter(f, sink, len) == f.size > sink.rotation

\* rotation="<n> MB": rotate when the record would take the file past n MB
ShouldRotate(f, sink, len) == f.size + len > sink.rotation

\* retention=<k>: keep the k most recent archives
Retain(archives, k) ==
    IF Len(archives) <= k THEN archives
    ELSE SubSeq(archives, Len(archives) - k + 1, Len(archives))

\* the file handler writes one record of length len; id counts the rotations
WriteFile(f, sink, len, id) ==
    IF ShouldRotate(f, sink, len)
    THEN [exists |-> TRUE, size |-> len,
          archives |-> Retain(Append(f.archives, id + 1), sink.retention)]
    ELSE [f EXCEPT !.size = f.size + len]

\* one handler's share of an emission; w is the world (files, nextId, out)
Deliver(w, sink, rec, len) ==
    IF ~Accepts(sink, rec) THEN w
    ELSE CASE sink.kind = "stdout" ->
                [w EXCEPT !.out.stdout = Append(@, Render(rec, sink))]
           [] sink.kind = "stderr" ->
                [w EXCEPT !.out.stderr = Append(@, Render(rec, sink))]
           [] sink.kind = "file" ->
                [w EXCEPT
                   !.files[sink.path] = WriteFile(@, sink, len, w.nextId),
                   !.nextId = IF ShouldRotate(w.files[sink.path], sink, len)
                              THEN @ + 1 ELSE @,
                   !.out.file = Append(@, Render(rec, sink))]

\* every registered handler gets the record, in registration order
RECURSIVE EmitTo(_, _, _, _, _)
EmitTo(reg, i, rec, len, w) ==
    IF i > Len(reg) THEN w
    ELSE EmitTo(reg, i + 1, rec, len, Deliver(w, reg[i], rec, len))

Record(level, module, extra) ==
    [level |-> level, name |-> module, extra |-> extra]

\* the world after rec (len megabytes long) went through the handlers of w
Emitted(w, rec, len) ==
    EmitTo(w.registry, 1, rec, len, [w EXCEPT !.out = [NoOut EXCEPT !.record = rec]])

---------------------------------------------------------------------------
(* setup_logging, statement by statement.  c is the call (locals, outcome, *)
(* the statements done so far), w the world the statements act on.         *)

World == [registry |-> registry, dirs |-> dirs, files |-> files,
          nextId |-> nextId, out |-> out]

Run(c, w) == [c |-> c, w |-> w]
Done(c, step) == [c EXCEPT !.steps = Append(@, step)]
Raise(c, e, l) == [c EXCEPT !.status = "raised", !.exc = e, !.line = l]

\* (variant: the handlers are removed first, the document is read after)
LoadConfigAfterRemove(r) ==
    IF r.c.status # "running" THEN r
    ELSE CASE r.c.doc.kind = "absent" ->
                [c |-> [r.c EXCEPT !.log_config = Node("map", EmptyMapping),
                                   !.steps = Append(@, "load")],
                 w |-> [r.w EXCEPT !.registry = <<>>]]
           [] r.c.doc.kind = "malformed" ->
                [c |-> [r.c EXCEPT !.status = "raised", !.exc = "YAMLError",
                                   !.line = 15],
                 w |-> [r.w EXCEPT !.registry = <<>>]]
           [] r.c.doc.kind \in {"null", "list"} ->
                [c |-> [r.c EXCEPT !.status = "raised", !.exc = "AttributeError",
                                   !.line = 16],
                 w |-> [r.w EXCEPT !.registry = <<>>]]
           [] r.c.doc.kind = "map" ->
                [c |-> [r.c EXCEPT !.log_config =
                                       IF r.c.doc.logging.kind = "missing"
                                       THEN Node("map", EmptyMapping)
                                       ELSE r.c.doc.logging,
                                   !.steps = Append(@, "load")],
                 w |-> [r.w EXCEPT !.registry = <<>>]]

\* lines 12-18
LoadConfig(r) ==
    IF r.c.status # "running" THEN r
    ELSE CASE r.c.doc.kind = "absent" ->
                Run(Done([r.c EXCEPT !.log_config = Node("map", EmptyMapping)],
                         "load"), r.w)
           [] r.c.doc.kind = "malformed" ->
                Run(Raise(r.c, "YAMLError", 15), r.w)
           [] r.c.doc.kind \in {"null", "list"} ->
                Run(Raise(r.c, "AttributeError", 16), r.w)
           [] r.c.doc.kind = "map" ->
                Run(Done([r.c EXCEPT !.log_config =
                             IF r.c.doc.logging.kind = "missing"
                             THEN Node("map", EmptyMapping)
                             ELSE r.c.doc.logging],
                         "load"), r.w)

\* lines 21-24
ResolveOptions(r) ==
    IF r.c.status # "running" THEN r
    ELSE IF r.c.log_config.kind # "map"
    THEN Run(Raise(r.c, "AttributeError", 21), r.w)
    ELSE Run(Done([r.c EXCEPT
                 !.log_level = Get(r.c.log_config.map, "level", DefaultLevel),
                 !.log_file = Get(r.c.log_config.map, "file", DefaultFile),
                 !.max_size_mb =
                     Get(r.c.log_config.map, "max_size_mb", DefaultMaxSizeMB),
                 !.backup_count =
                     Get(r.c.log_config.map, "backup_count", DefaultBackupCount)],
             "resolve"), r.w)

\* (variant: the handlers already registered are kept)
RemoveNothing(r) ==
    IF r.c.status # "running" THEN r
    ELSE Run(Done(r.c, "remove"), r.w)

\* line 27
RemoveHandlers(r) ==
    IF r.c.status # "running" THEN r
    ELSE Run(Done(r.c, "remove"), [r.w EXCEPT !.registry = <<>>])

\* (variant: the console handler is not registered at this point)
AddConsoleDeferred(r) ==
    IF r.c.status # "running" THEN r
    ELSE IF r.c.log_level \notin LevelNames
    THEN Run(Raise(r.c, "ValueError", 30), r.w)
    ELSE Run(Done(r.c, "console"), r.w)

\* lines 30-35
AddConsole(r) ==
    IF r.c.status # "running" THEN r
    ELSE IF r.c.log_level \notin LevelNames
    THEN Run(Raise(r.c, "ValueError", 30), r.w)
    ELSE Run(Done(r.c, "console"),
             [r.w EXCEPT !.registry = Append(@, ConsoleSink(r.c.log_level))])

\* (variant: mkdir is applied one level too high)
MakeGrandparentDir(r, env) ==
    IF r.c.status # "running" THEN r
    ELSE IF env = "nodir" /\ Parent(r.c.log_file) \notin r.w.dirs
    THEN Run(Raise(r.c, "OSError", 39), r.w)
    ELSE Run(Done(r.c, "mkdir"),
             [r.w EXCEPT !.dirs = @ \cup Ancestors(Parent(Parent(r.c.log_file)))])

\* lines 38-39: mkdir(parents=True, exist_ok=True); under "nodir" the
\* directory cannot be created, which matters only when it does not exist yet
MakeLogDir(r, env) ==
    IF r.c.status # "running" THEN r
    ELSE IF env = "nodir" /\ Parent(r.c.log_file) \notin r.w.dirs
    THEN Run(Raise(r.c, "OSError", 39), r.w)
    ELSE Run(Done(r.c, "mkdir"),
             [r.w EXCEPT !.dirs = @ \cup Ancestors(Parent(r.c.log_file))])

\* lines 42-49: the file handler opens log_file for appending (under
\* "noopen" the open fails) and is registered
AddFile(r, env) ==
    IF r.c.status # "running" THEN r
    ELSE IF env = "noopen"
    THEN Run(Raise(r.c, "OSError", 42), r.w)
    ELSE Run(Done(r.c, "file"),
             [r.w EXCEPT
                !.files[r.c.log_file].exists = TRUE,
                !.registry = Append(@,
                    FileSink(r.c.log_file, r.c.log_level,
                             r.c.max_size_mb, r.c.backup_count))])

\* lines 51-52
LogInitialized(r) ==
    IF r.c.status # "running" THEN r
    ELSE Run([Done(r.c, "info") EXCEPT !.status = "ok", !.line = 52],
             Emitted(r.w, Record("INFO", LoggerModule, NoName), InfoLen))

\* lines 7-52: the statements in the order of the code
SetupLogging(doc, env) ==
    /\ nextId < MaxRotations
    /\ \E r1 \in {LoadConfig(Run(Entered(doc), World))} :
       \E r2 \in {ResolveOptions(r1)} :
       \E r3 \in {RemoveHandlers(r2)} :
       \E r4 \in {AddConsole(r3)} :
       \E r5 \in {MakeLogDir(r4, env)} :
       \E r6 \in {AddFile(r5, env)} :
       \E r \in {LogInitialized(r6)} :
          /\ call' = r.c
          /\ registry' = r.w.registry
          /\ dirs' = r.w.dirs
          /\ files' = r.w.files
          /\ nextId' = r.w.nextId
          /\ out' = r.w.out
    /\ UNCHANGED handles

---------------------------------------------------------------------------
(* get_logger and the use of a handle *)

\* (variant: every handle comes with a console handler of its own)
GetLoggerAddingSink(name) ==
    /\ handles' = handles \cup {name}
    /\ registry' = Append(registry, ConsoleSink("DEBUG"))
    /\ UNCHANGED <<call, dirs, files, nextId, out>>

\* lines 55-59: logger.bind(name=name) puts name into the handle's extra
GetLogger(name) ==
    /\ handles' = handles \cup {name}
    /\ UNCHANGED <<call, registry, dirs, files, nextId, out>>

\* module caller emits a record through the handle bound to name h
\* (NoName: the logger setup_logging returned)
Emit(h, caller, level, len) ==
    /\ nextId < MaxRotations
    /\ \E w \in {Emitted(World, Record(level, caller, h), len)} :
          /\ files' = w.files
          /\ nextId' = w.nextId
          /\ out' = w.out
    /\ UNCHANGED <<call, registry, dirs, handles>>

Next ==
    \/ \E doc \in Docs, env \in Envs : SetupLogging(doc, env)
    \/ \E name \in Names : GetLogger(name)
    \/ \E h \in handles \cup {NoName}, caller \in Callers,
          level \in Severities, len \in MsgLens : Emit(h, caller, level, len)

Spec == Init /\ [][Next]_vars

---------------------------------------------------------------------------
(* Vocabulary of the properties *)

\* what the document asks for: a key of its "logging" mapping, or the default
HasLogging(doc) == doc.kind = "map" /\ doc.logging.kind = "map"
Want(doc, key, default) ==
    IF HasLogging(doc) /\ doc.logging.map[key].has
    THEN doc.logging.map[key].val
    ELSE default

\* the document has no "logging" section at all
NoSection(doc) ==
    \/ doc.kind \in {"absent", "null"}
    \/ doc.kind = "map" /\ doc.logging.kind = "missing"

\* the document exists and is not valid structured data
Invalid(doc) ==
    \/ doc.kind \in {"malformed", "list"}
    \/ doc.kind = "map" /\ doc.logging.kind = "scalar"

ConfigParseError == "YAMLError"
FilesystemError == "OSError"

Ok == call.status = "ok"
Failed == call.status = "raised"
FailedInConfig == Failed /\ call.line \in 12..24

Of(reg, kind) == {i \in 1..Len(reg) : reg[i].kind = kind}
Pos(steps, step) == CHOOSE i \in 1..Len(steps) : steps[i] = step
Did(step) == \E i \in 1..Len(call.steps) : call.steps[i] = step

Lines == {out.stdout[i] : i \in 1..Len(out.stdout)}
         \cup {out.file[i] : i \in 1..Len(out.file)}

\* the last emitted record is at or above level
AtOrAbove(level) == LevelNo(out.record.level) >= LevelNo(level)

---------------------------------------------------------------------------
(* C1: after a successful setup_logging the registry holds exactly one     *)
(* console handler and one file handler, both as the document of that call *)
(* asks; the engine's default handler and the handlers of earlier calls    *)
(* are gone, and an emitted record gives at most one console line (exactly *)
(* one when it passes the level).                                          *)
C1_OneConsoleOneFile ==
    Ok =>
      /\ Cardinality(Of(registry, "stdout")) = 1
      /\ Cardinality(Of(registry, "file")) = 1
      /\ Of(registry, "stderr") = {}
      /\ Len(registry) = 2
      /\ \A i \in 1..Len(registry) :
            registry[i].level = Want(call.doc, "level", "INFO")
      /\ \A i \in Of(registry, "file") :
            /\ registry[i].path = Want(call.doc, "file", <<"logs", "bot.log">>)
            /\ registry[i].rotation = Want(call.doc, "max_size_mb", 10)
            /\ registry[i].retention = Want(call.doc, "backup_count", 5)
      /\ out.stderr = <<>>
      /\ Len(out.stdout) = IF AtOrAbove(Want(call.doc, "level", "INFO"))
                           THEN 1 ELSE 0

\* a second successful call (the first one opened logs/bot.log) and a record
\* that reached the console once
C1_Witness ==
    /\ Ok
    /\ call.log_file = AltFile
    /\ files[DefaultFile].exists
    /\ Len(out.stdout) = 1
    /\ out.record.name = "main"

---------------------------------------------------------------------------
(* C2: each option is the document's key when present and the default      *)
(* otherwise, and for a document without a "logging" section (no file, an  *)
(* empty file, a mapping without the key) setup_logging gets past the      *)
(* resolution of its options with all four defaults.                       *)
C2_DefaultsPerKey ==
    call.status # "none" =>
      /\ NoSection(call.doc) => Did("resolve")
      /\ (HasLogging(call.doc) \/ NoSection(call.doc)) =>
            /\ call.log_level = Want(call.doc, "level", "INFO")
            /\ call.log_file = Want(call.doc, "file", <<"logs", "bot.log">>)
            /\ call.max_size_mb = Want(call.doc, "max_size_mb", 10)
            /\ call.backup_count = Want(call.doc, "backup_count", 5)

---------------------------------------------------------------------------
(* C3: after a successful setup_logging the parent directory of the log    *)
(* file exists; the directory is made before the file handler is           *)
(* registered, so a registered file handler always has its directory.      *)
C3_DirBeforeFileSink ==
    /\ Ok => Ancestors(Parent(Want(call.doc, "file", <<"logs", "bot.log">>)))
                \subseteq dirs
    /\ \A i \in Of(registry, "file") : Parent(registry[i].path) \in dirs
    /\ Did("file") =>
          /\ Did("mkdir")
          /\ Pos(call.steps, "mkdir") < Pos(call.steps, "file")

\* the nested directory var/log was made and a later call found logs/ there
C3_Witness ==
    /\ Ok
    /\ call.log_file = DefaultFile
    /\ dirs = {<<"logs">>, <<"var">>, <<"var", "log">>}
    /\ files[AltFile].exists

---------------------------------------------------------------------------
(* C4: a document that exists and is not valid structured data makes       *)
(* setup_logging fail with ConfigParseError, and setup_logging fails with  *)
(* nothing but ConfigParseError and FilesystemError.                       *)
C4_OnlyTaxonomyErrors ==
    /\ (call.status # "none" /\ Invalid(call.doc)) =>
          Failed /\ call.exc = ConfigParseError
    /\ Failed => call.exc \in {ConfigParseError, FilesystemError}

---------------------------------------------------------------------------
(* C5: a record emitted through the handle of get_logger(n) carries n as   *)
(* the name field of the console line and of the file line.               *)
C5_BoundNameRendered ==
    (Ok /\ out.record.extra # NoName) =>
        \A l \in Lines : l.name = out.record.extra

---------------------------------------------------------------------------
(* C6: get_logger can be called in every state, for every name, and it     *)
(* leaves the registry, the most recent call's configuration, the          *)
(* directories and the files alone; a record emitted through any handle    *)
(* goes to the handlers registered at that moment.                         *)
C6_GetLoggerPure ==
    /\ [](\A n \in Names : ENABLED GetLogger(n))
    /\ [][handles' # handles =>
            UNCHANGED <<call, registry, dirs, files, nextId, out>>]_vars
    /\ [][(UNCHANGED <<call, registry, handles>> /\ out' # out) =>
            /\ out'.record.extra \in handles \cup {NoName}
            /\ Len(out'.stdout) = Cardinality({i \in Of(registry, "stdout") :
                   LevelNo(out'.record.level) >= LevelNo(registry[i].level)})
            /\ Len(out'.stderr) = Cardinality({i \in Of(registry, "stderr") :
                   LevelNo(out'.record.level) >= LevelNo(registry[i].level)})
            /\ Len(out'.file) = Cardinality({i \in Of(registry, "file") :
                   LevelNo(out'.record.level) >= LevelNo(registry[i].level)})]_vars

\* a handle exists, the most recent setup_logging failed after clearing the
\* registry, and a record went through the handle to the one handler left
C6_Witness ==
    /\ handles = {"moduleA"}
    /\ Failed /\ call.line = 42
    /\ out.record.extra = "moduleA"
    /\ Len(out.stdout) = 1
    /\ out.file = <<>>

---------------------------------------------------------------------------
(* C7: after a successful setup_logging with level L the console handler   *)
(* and the file handler both take exactly the records at or above L, so a  *)
(* record reaches the console if and only if it reaches the file.          *)
C7_SameThreshold ==
    Ok =>
      /\ (AtOrAbove(Want(call.doc, "level", "INFO")) => Len(out.stdout) = 1)
      /\ (~AtOrAbove(Want(call.doc, "level", "INFO")) => out.stdout = <<>>)
      /\ Len(out.stdout) = Len(out.file)

\* level DEBUG: a DEBUG record reached both
C7_Witness ==
    /\ Ok
    /\ call.log_level = "DEBUG"
    /\ out.record.level = "DEBUG"
    /\ Len(out.stdout) = 1
    /\ Len(out.file) = 1

---------------------------------------------------------------------------
(* Rotation, seen on one step.  After a successful setup_logging the file  *)
(* handler writes to the file the document names, with its size limit and  *)
(* its retention count.                                                    *)

LogPath == Want(call'.doc, "file", <<"logs", "bot.log">>)
Limit == Want(call'.doc, "max_size_mb", 10)
Keep == Want(call'.doc, "backup_count", 5)
Before == files[LogPath]
After == files'[LogPath]
Rotated == nextId' # nextId
Wrote == Rotated \/ After.size # Before.size
Elems(seq) == {seq[i] : i \in 1..Len(seq)}
Min(a, b) == IF a <= b THEN a ELSE b
IsSuffix(t, u) == Len(t) <= Len(u) /\ t = SubSeq(u, Len(u) - Len(t) + 1, Len(u))

(* C8 as stated: a write that would take the active file past M MB         *)
(* rotates, the rotation leaves the active file below the threshold and    *)
(* adds exactly one archive, and at most K archives are kept, the oldest   *)
(* being the ones removed.                                                 *)
C8_AsStated ==
    [][(call'.status = "ok" /\ Wrote) =>
         /\ After.size <= Limit
         /\ Rotated =>
              /\ Cardinality(Elems(After.archives) \ Elems(Before.archives)) = 1
              /\ Len(After.archives) <= Keep
              /\ \A a \in Elems(Before.archives) \ Elems(After.archives) :
                    \A b \in Elems(After.archives) : a < b]_vars

(* C8, amended: a write that would take the active file past M MB rotates  *)
(* before the record is written: the old content becomes exactly one new   *)
(* archive, the K most recent archives are kept, and the active file       *)
(* restarts with the record that triggered the rotation alone (which may   *)
(* itself be longer than M MB); a write that fits does not rotate.         *)
C8_RotationAndRetention ==
    [][(call'.status = "ok" /\ Wrote) =>
         /\ \A q \in FilePaths \ {LogPath} : files'[q] = files[q]
         /\ ~Rotated =>
              /\ After.size > Before.size
              /\ After.size <= Limit
              /\ After.archives = Before.archives
         /\ Rotated =>
              /\ nextId' = nextId + 1
              /\ After.size \in MsgLens
              /\ Before.size + After.size > Limit
              /\ Cardinality(Elems(After.archives) \ Elems(Before.archives)) = 1
              /\ IsSuffix(After.archives, Append(Before.archives, nextId'))
              /\ Len(After.archives) = Min(Keep, Len(Before.archives) + 1)]_vars

\* retention 1: the second rotation of logs/bot.log replaced the first archive
C8_Witness ==
    /\ Ok
    /\ call.log_file = DefaultFile
    /\ call.backup_count = 1
    /\ files[DefaultFile].archives = <<2>>
    /\ files[AltFile].archives = <<>>

---------------------------------------------------------------------------
(* C9: setup_logging touches the registry only after the options are       *)
(* resolved: a call that fails while reading or parsing the document       *)
(* leaves the registry as it was and makes no directory.                   *)
C9_ConfigFailureTouchesNothing ==
    /\ [][(call'.status = "raised" /\ call'.line \in 12..24) =>
            /\ registry' = registry
            /\ dirs' = dirs]_vars
    /\ [](FailedInConfig => ~Did("remove") /\ ~Did("mkdir"))
    /\ [](Did("remove") =>
            Did("resolve") /\ Pos(call.steps, "resolve") < Pos(call.steps, "remove"))

\* the document was not a mapping; both handlers of the call before are there
C9_Witness ==
    /\ Failed /\ call.line = 16
    /\ Cardinality(Of(registry, "stdout")) = 1
    /\ Cardinality(Of(registry, "file")) = 1
    /\ dirs = {<<"logs">>}

---------------------------------------------------------------------------
(* C10: when the log directory cannot be made, setup_logging raises at     *)
(* once, with the earlier handlers removed and the new console handler     *)
(* registered: the registry holds that console handler and no file         *)
(* handler, and the summary record is not emitted.                         *)
C10_MkdirFailureLeavesConsoleOnly ==
    /\ []((Failed /\ call.line = 39) =>
            /\ call.exc = "OSError"
            /\ call.steps = <<"load", "resolve", "remove", "console">>
            /\ Len(registry) = 1
            /\ registry[1].kind = "stdout"
            /\ registry[1].level = Want(call.doc, "level", "INFO")
            /\ Parent(call.log_file) \notin dirs)
    /\ [][(call' # call /\ call'.status = "raised" /\ call'.line = 39) =>
            /\ out' = out
            /\ files' = files
            /\ dirs' = dirs]_vars

\* logs/bot.log had its handler; the call for var/log/app.log failed at mkdir
C10_Witness ==
    /\ Failed /\ call.line = 39
    /\ call.log_file = AltFile
    /\ files[DefaultFile].exists
    /\ Len(registry) = 1

=============================================================================
